---- MODULE Spec2Model ----
(***************************************************************************)
(* Model of src/pipeline/registration2.py: create_point_cloud, the stages  *)
(* of multi_scale_icp, evaluate_registration, incremental_registration,    *)
(* the mesh cleanup and process_frames_to_mesh.                            *)
(*                                                                         *)
(* Lengths are integers in units of 0.001 (so 0.02 is 20 and 0.05 is 50),  *)
(* fitness is in percent (0.3 is 30).  A 4x4 matrix is abstracted to its   *)
(* kind: "identity", "finite" (finite, not the identity), "nan" (has a NaN *)
(* entry) or "inf" (has an Inf entry and no NaN).  Python's None is the    *)
(* string "None" for matrices and a record with none = TRUE for clouds.    *)
(***************************************************************************)
EXTENDS Integers, Sequences, FiniteSets, TLC

VARIABLES
    \* incremental_registration
    pcd_list, voxel_size, valid_pcd_list, merged, transformations, i, pc,
    result, metrics, phase, accumulated, log, lc,
    \* multi_scale_icp
    icp,
    \* evaluate_registration
    ev,
    \* create_point_cloud
    cpc,
    \* the cost budgets of execute_global_registration and refine_registration
    bud,
    \* the mesh cleanup of create_mesh_from_point_cloud
    msh,
    \* process_frames_to_mesh
    pl,
    \* the worker pools of process_multiple_point_clouds and visualize_batch
    pool,
    \* main
    mn

vars == <<pcd_list, voxel_size, valid_pcd_list, merged, transformations, i, pc,
          result, metrics, phase, accumulated, log, lc, icp, ev, cpc, bud,
          msh, pl, pool, mn>>

fusionVars == <<pcd_list, voxel_size, valid_pcd_list, merged, transformations,
                i, pc, result, metrics, phase, accumulated, log, lc>>

\* the variables of the calls modelled on their own
callVars == <<icp, ev, cpc, bud, msh, pool, mn>>

-----------------------------------------------------------------------------
(* Bounds of the model *)

\* longest input list in which every entry kind is tried at every position
MaxShort == 3
\* longest input list of valid clouds (loop closure needs more than 10)
MaxLong == 11

-----------------------------------------------------------------------------
(* Program constants *)

BatchSize == 4
LoopClosureMin == 10
DefaultVoxel == 50
DefaultThreshold == 20
FitnessGate == 30
MinDownPoints == 10
RmseInf == 1000000
VoxelNone == -1

None == "None"
\* a call that is not part of the run
Off == [pc |-> "off"]
Identity == "identity"
MatrixKinds == {"identity", "finite", "nan", "inf"}

Min(a, b) == IF a < b THEN a ELSE b

-----------------------------------------------------------------------------
(* multi_scale_icp and the stages it calls *)

\* The (None, None) of preprocess_point_cloud.
NoDown == [none |-> TRUE, npoints |-> 0]

\* PreprocessPointCloud refusing a cloud of exactly 10 points
PreprocessPointCloud_AtMost(npoints, ndown) ==
    IF npoints = 0 THEN NoDown
    ELSE IF ndown <= MinDownPoints THEN NoDown
    ELSE [none |-> FALSE, npoints |-> ndown]

\* preprocess_point_cloud: npoints is len(pcd.points), ndown the number of
\* points voxel_down_sample leaves.  The result is (None, None) or the
\* downsampled cloud with its descriptor, represented by its point count.
PreprocessPointCloud(npoints, ndown) ==
    IF npoints = 0 THEN NoDown
    ELSE IF ndown < MinDownPoints THEN NoDown
    ELSE [none |-> FALSE, npoints |-> ndown]

\* np.allclose(current_transformation, np.identity(4))
AllCloseIdentity(T) == T = Identity

\* np.any(np.isnan(T))
AnyIsNan(T) == T = "nan"

\* ScaleStep running global registration at any scale that starts from the
\* identity
ScaleStep_GlobalAtAnyScale(cur, idx, sdown, tdown, g, r) ==
    IF sdown.none \/ tdown.none
    THEN <<cur, FALSE, FALSE, cur>>
    ELSE LET callGlobal == AllCloseIdentity(cur)
             cur1 == IF callGlobal /\ g # None THEN g ELSE cur
             cur2 == IF r # None THEN r ELSE cur1
         IN  <<cur2, callGlobal, TRUE, cur1>>

\* ScaleStep refining from the transformation the scale started with
ScaleStep_RefineFromStale(cur, idx, sdown, tdown, g, r) ==
    IF sdown.none \/ tdown.none
    THEN <<cur, FALSE, FALSE, cur>>
    ELSE LET callGlobal == idx = 0 /\ AllCloseIdentity(cur)
             cur2 == IF r # None THEN r ELSE cur
         IN  <<cur2, callGlobal, TRUE, cur>>

\* One iteration of the loop over voxel_sizes.  idx is the 0-based index of
\* the scale, sdown/tdown what preprocessing returns for source and target,
\* g what execute_global_registration returns (None or the transformation of
\* its result), r what refine_registration returns.  The value is <<the new
\* current_transformation, global called, refine called, the
\* initial_transform handed to refine_registration>>.
ScaleStep(cur, idx, sdown, tdown, g, r) ==
    IF sdown.none \/ tdown.none
    THEN <<cur, FALSE, FALSE, cur>>
    ELSE LET callGlobal == idx = 0 /\ AllCloseIdentity(cur)
             cur1 == IF callGlobal /\ g # None THEN g ELSE cur
             cur2 == IF r # None THEN r ELSE cur1
         IN  <<cur2, callGlobal, TRUE, cur1>>

\* The final validation of multi_scale_icp.
FinalValidation(cur) ==
    IF ~AnyIsNan(cur) THEN cur ELSE Identity

\* What a stage of the library may hand back.
StageResults == MatrixKinds \cup {None}
\* Point counts of the clouds tried, and what voxel_down_sample may leave of
\* a cloud of npoints points.
PointCounts == {0, 1, 5, 100}
DownCounts(npoints) ==
    IF npoints = 0 THEN {0} ELSE {n \in {1, 9, 10, 50} : n <= npoints}
\* What preprocessing may hand back for a cloud with points.
DownResults == {PreprocessPointCloud(100, n) : n \in DownCounts(100)}

\* current_transformation after the scales 0..k-1, for every outcome of the
\* stages.
RECURSIVE CurAfter(_)
CurAfter(k) ==
    IF k = 0 THEN {Identity}
    ELSE {ScaleStep(c, k - 1, sd, td, g, r)[1] :
            c \in CurAfter(k - 1), sd \in DownResults, td \in DownResults,
            g \in StageResults, r \in StageResults}

NumScales == 3

\* Every value multi_scale_icp can return for two present clouds.
ICPReturns == {FinalValidation(c) : c \in CurAfter(NumScales)}

\* multi_scale_icp as called from incremental_registration.
MultiScaleICP(sourceNone, targetNone, ret) ==
    IF sourceNone \/ targetNone THEN None ELSE ret

-----------------------------------------------------------------------------
(* evaluate_registration *)

\* AdaptiveThreshold with the cloud's scale left out
AdaptiveThreshold_IgnoresDiameter(threshold, source_diameter) ==
    threshold

\* adaptive_threshold = min(threshold, source_diameter * 0.01)
AdaptiveThreshold(threshold, source_diameter) ==
    Min(threshold, source_diameter \div 100)

\* The success entry of the metrics.
GatePasses(fitness, inlier_rmse, adaptive_threshold) ==
    fitness > FitnessGate /\ inlier_rmse < adaptive_threshold * 2

\* lib is what o3d's evaluate_registration does: raise, or hand back a
\* fitness and an inlier_rmse.  has_success says whether the returned dict
\* has a "success" key.
EvaluateRegistration(sourceNone, targetNone, source_diameter, threshold, lib) ==
    IF sourceNone \/ targetNone
    THEN [fitness |-> 0, inlier_rmse |-> RmseInf, correspondence_set |-> 0,
          has_success |-> FALSE, success |-> FALSE]
    ELSE IF lib.raises
    THEN [fitness |-> 0, inlier_rmse |-> RmseInf, correspondence_set |-> 0,
          has_success |-> TRUE, success |-> FALSE]
    ELSE [fitness |-> lib.fitness, inlier_rmse |-> lib.inlier_rmse,
          correspondence_set |-> lib.fitness,
          has_success |-> TRUE,
          success |-> GatePasses(lib.fitness, lib.inlier_rmse,
                         AdaptiveThreshold(threshold, source_diameter))]

FitnessValues == {30, 31}
RmseValues == {19, 20, 39, 40, 59, 60}

\* A transformation with NaN or Inf entries moves every source point out of
\* reach of the target: no correspondence, fitness 0, inlier_rmse 0.
EvalLibOutcomes(T) ==
    {[raises |-> TRUE, fitness |-> 0, inlier_rmse |-> 0]} \cup
    IF T \in {"nan", "inf"}
    THEN {[raises |-> FALSE, fitness |-> 0, inlier_rmse |-> 0]}
    ELSE {[raises |-> FALSE, fitness |-> f, inlier_rmse |-> e] :
            f \in FitnessValues, e \in RmseValues}

-----------------------------------------------------------------------------
(* incremental_registration: the values *)

\* A cloud is [none, obj, parts, diameter, cleaned, normals].  obj names the
\* Python object: k > 0 is entry k of the input list, 0 a cloud made inside
\* the call.  parts lists where its points come from: <<k, t, c>> is input
\* cloud k moved by the transformation recorded under tag t (tag 0 is the
\* identity, tag j the matrix multi_scale_icp returned for valid_pcd_list[j])
\* corrected by error_root ** c (c = 0: not corrected).  A cloud without
\* parts has no points.  cleaned: the cloud is the output of
\* voxel_down_sample + remove_statistical_outlier; normals: estimate_normals
\* and orient_normals_consistent_tangent_plane have run on it.
NonePcd ==
    [none |-> TRUE, obj |-> 0, parts |-> <<>>, diameter |-> 0,
     cleaned |-> FALSE, normals |-> FALSE]

EntryKinds == {"none", "empty", "small", "large"}
Diameters == {1000, 3000}

MakeEntry(k, kind) ==
    IF kind = "none" THEN NonePcd
    ELSE [none |-> FALSE, obj |-> k,
          parts |-> IF kind = "empty" THEN <<>> ELSE << <<k, 0, 0>> >>,
          diameter |-> IF kind = "small" THEN 1000
                       ELSE IF kind = "large" THEN 3000 ELSE 0,
          cleaned |-> FALSE, normals |-> FALSE]

\* len(pcd.points)
NumPoints(pcd) == Len(pcd.parts)

\* The input lists: every list of at most MaxShort entries of every kind, and
\* the lists of LoopClosureMin..MaxLong clouds.
ShortLists ==
    UNION {[1..n -> EntryKinds] : n \in 0..MaxShort}
LongLists ==
    {[k \in 1..n |-> "large"] : n \in LoopClosureMin..MaxLong}
MakeList(ks) == [k \in 1..Len(ks) |-> MakeEntry(k, ks[k])]
VoxelInputs == {VoxelNone, 5, 15}
\* The calls tried: <<pcd_list, voxel_size>>.  The short lists are called
\* with every voxel_size, the long ones with 0.015.
InputCases ==
    {<<MakeList(ks), v>> : ks \in ShortLists, v \in VoxelInputs}
    \cup {<<MakeList(ks), 15>> : ks \in LongLists}

\* copy.deepcopy(pcd)
DeepCopy(pcd) == [pcd EXCEPT !.obj = 0]

\* merged += current_transformed, the points of cloud c under <<tag, corr>>
MergeInto(m, c, tag, corr) ==
    [m EXCEPT !.parts = Append(m.parts, <<c.obj, tag, corr>>),
              !.cleaned = FALSE, !.normals = FALSE]

\* merged.voxel_down_sample(voxel_size), then remove_statistical_outlier
DownsampleAndClean(m) ==
    [m EXCEPT !.obj = 0, !.cleaned = TRUE, !.normals = FALSE]

\* valid_pcd_list = [pcd for pcd in pcd_list if pcd is not None and
\*                   len(pcd.points) > 0]
IsValid(pcd) == ~pcd.none /\ NumPoints(pcd) > 0
ValidList(l) == SelectSeq(l, IsValid)

\* sorted(values), by insertion
RECURSIVE InsertSorted(_, _)
InsertSorted(s, x) ==
    IF s = <<>> THEN <<x>>
    ELSE IF x <= Head(s) THEN <<x>> \o s
    ELSE <<Head(s)>> \o InsertSorted(Tail(s), x)
RECURSIVE Sorted(_)
Sorted(s) ==
    IF s = <<>> THEN <<>> ELSE InsertSorted(Sorted(Tail(s)), Head(s))

\* np.median
Median(s) ==
    LET t == Sorted(s)
        n == Len(t)
    IN  IF n % 2 = 1 THEN t[(n + 1) \div 2]
        ELSE (t[n \div 2] + t[n \div 2 + 1]) \div 2

\* The loop over pcd_list that collects the diameters reads pcd.points of
\* every entry: it raises AttributeError on a None entry.
DiameterLoopRaises(l) == \E k \in 1..Len(l) : l[k].none

RECURSIVE DiametersOf(_)
DiametersOf(l) ==
    IF l = <<>> THEN <<>>
    ELSE IF NumPoints(Head(l)) > 0
         THEN <<Head(l).diameter>> \o DiametersOf(Tail(l))
         ELSE DiametersOf(Tail(l))

\* voxel_size when none is supplied: 1% of the median diameter, or 0.05
EstimatedVoxelSize(l) ==
    IF DiametersOf(l) # <<>> THEN Median(DiametersOf(l)) \div 100
    ELSE DefaultVoxel

NoMetrics ==
    [fitness |-> 0, inlier_rmse |-> 0, correspondence_set |-> 0,
     has_success |-> FALSE, success |-> FALSE]
NoLoopClosure == [outcome |-> "none", diameter |-> 0]

-----------------------------------------------------------------------------
(* incremental_registration: the steps *)

\* if i % batch_size == 0
ConsolidationDue(idx) == idx % BatchSize = 0

\* AfterFrame with the test of metrics["success"] left out
AfterFrame_AlwaysMerges(m, ts, cur, idx, success) ==
    [merged |-> MergeInto(m, cur, idx, 0),
     transformations |-> Append(ts, idx),
     consolidated |-> FALSE]

\* AfterFrame recording the transformation of a frame that is not fused
AfterFrame_RecordsSkipped(m, ts, cur, idx, success) ==
    IF success
    THEN LET m1 == MergeInto(m, cur, idx, 0)
         IN  [merged |-> IF ConsolidationDue(idx) THEN DownsampleAndClean(m1)
                         ELSE m1,
              transformations |-> Append(ts, idx),
              consolidated |-> ConsolidationDue(idx)]
    ELSE [merged |-> m, transformations |-> Append(ts, idx),
          consolidated |-> FALSE]

\* The body of `if metrics["success"]: ... else: ...` for frame idx (0-based
\* index into valid_pcd_list): the new merged, the new transformations and
\* whether the consolidation ran.
AfterFrame(m, ts, cur, idx, success) ==
    IF success
    THEN LET m1 == MergeInto(m, cur, idx, 0)
         IN  [merged |-> IF ConsolidationDue(idx) THEN DownsampleAndClean(m1)
                         ELSE m1,
              transformations |-> Append(ts, idx),
              consolidated |-> ConsolidationDue(idx)]
    ELSE [merged |-> m, transformations |-> ts, consolidated |-> FALSE]

\* LoopClosureDue with >= for >
LoopClosureDue_AtLeast(valid) == Len(valid) >= LoopClosureMin

\* if len(valid_pcd_list) > 10
LoopClosureDue(valid) == Len(valid) > LoopClosureMin

\* The rebuild of the loop closure from frame idx on: transformations[idx]
\* raises IndexError when fewer transformations than clouds were recorded,
\* and the except clause leaves merged as rebuilt so far.
RECURSIVE RebuildFrom(_, _, _, _)
RebuildFrom(m, valid, ts, idx) ==
    IF idx >= Len(valid) THEN [merged |-> m, raised |-> FALSE]
    ELSE IF idx + 1 > Len(ts) THEN [merged |-> m, raised |-> TRUE]
    ELSE RebuildFrom(MergeInto(m, valid[idx + 1], ts[idx + 1], idx),
                     valid, ts, idx + 1)

\* merged = copy.deepcopy(valid_pcd_list[0]), then the loop over the frames
Rebuild(valid, ts) == RebuildFrom(DeepCopy(valid[1]), valid, ts, 1)

\* The final cleanup and the normals.
Finalized(m) ==
    [DownsampleAndClean(m) EXCEPT !.normals = TRUE]

\* EarlyReturn handing back the single entry moved by a transformation
EarlyReturn_Moved(l) ==
    IF l = <<>> THEN NonePcd ELSE [l[1] EXCEPT !.parts = << <<1, 1, 0>> >>]

\* Line 243: return None if not pcd_list else pcd_list[0]
EarlyReturn(l) ==
    IF l = <<>> THEN NonePcd ELSE l[1]

Init ==
    /\ \E c \in InputCases : pcd_list = c[1] /\ voxel_size = c[2]
    /\ valid_pcd_list = <<>>
    /\ merged = NonePcd
    /\ transformations = <<>>
    /\ i = 0
    /\ pc = "start"
    /\ result = NonePcd
    /\ metrics = NoMetrics
    /\ phase = "Empty"
    /\ accumulated = NonePcd
    /\ log = <<>>
    /\ lc = NoLoopClosure
    /\ icp = Off
    /\ ev = Off
    /\ cpc = Off
    /\ bud = Off
    /\ msh = Off
    /\ pl = Off
    /\ pool = Off
    /\ mn = Off

\* Lines 242-268: the early return, the voxel size, the filter, the seed.
Start ==
    /\ pc = "start"
    /\ UNCHANGED <<pcd_list, metrics, accumulated, log, lc, callVars, pl>>
    /\ IF pcd_list = <<>> \/ Len(pcd_list) < 2
       THEN /\ result' = EarlyReturn(pcd_list)
            /\ pc' = "done"
            /\ UNCHANGED <<voxel_size, valid_pcd_list, merged, transformations,
                           i, phase>>
       ELSE IF voxel_size = VoxelNone /\ DiameterLoopRaises(pcd_list)
       THEN /\ pc' = "raised"
            /\ UNCHANGED <<voxel_size, valid_pcd_list, merged, transformations,
                           i, phase, result>>
       ELSE /\ voxel_size' = IF voxel_size = VoxelNone
                             THEN EstimatedVoxelSize(pcd_list)
                             ELSE voxel_size
            /\ valid_pcd_list' = ValidList(pcd_list)
            /\ IF ValidList(pcd_list) = <<>>
               THEN /\ result' = NonePcd
                    /\ pc' = "done"
                    /\ UNCHANGED <<merged, transformations, i, phase>>
               ELSE /\ merged' = DeepCopy(ValidList(pcd_list)[1])
                    /\ transformations' = <<0>>
                    /\ i' = 1
                    /\ pc' = "loop"
                    /\ phase' = "Seeded"
                    /\ UNCHANGED result

\* Lines 271-301: one iteration of the loop over valid_pcd_list[1:].
Frame ==
    /\ pc = "loop"
    /\ i < Len(valid_pcd_list)
    /\ UNCHANGED <<pcd_list, voxel_size, valid_pcd_list, result, accumulated,
                   lc, callVars, pl>>
    /\ \E ret \in ICPReturns :
       \E lib \in EvalLibOutcomes(ret) :
          LET current_pcd == valid_pcd_list[i + 1]
              transformation == MultiScaleICP(current_pcd.none, merged.none, ret)
              m == EvaluateRegistration(current_pcd.none, merged.none,
                       current_pcd.diameter, voxel_size * 2, lib)
          IN  IF transformation = None
              THEN /\ i' = i + 1
                   /\ log' = Append(log, [frame |-> i, evaluated |-> FALSE,
                                          fused |-> FALSE, consolidated |-> FALSE])
                   /\ UNCHANGED <<merged, transformations, metrics, pc, phase>>
              ELSE IF ~m.has_success
              THEN /\ metrics' = m
                   /\ pc' = "raised"
                   /\ UNCHANGED <<merged, transformations, i, log, phase>>
              ELSE LET a == AfterFrame(merged, transformations, current_pcd, i,
                                       m.success)
                   IN  /\ metrics' = m
                       /\ merged' = a.merged
                       /\ transformations' = a.transformations
                       /\ log' = Append(log, [frame |-> i, evaluated |-> TRUE,
                                              fused |-> m.success,
                                              consolidated |-> a.consolidated])
                       /\ i' = i + 1
                       /\ phase' = "Accumulating"
                       /\ UNCHANGED pc

\* Line 304: the loop is over; loop closure is tried on more than 10 clouds.
LoopExit ==
    /\ pc = "loop"
    /\ i >= Len(valid_pcd_list)
    /\ accumulated' = merged
    /\ IF LoopClosureDue(valid_pcd_list)
       THEN pc' = "loop_closure" /\ phase' = "LoopClosing"
       ELSE pc' = "final" /\ UNCHANGED phase
    /\ UNCHANGED <<pcd_list, voxel_size, valid_pcd_list, merged,
                   transformations, i, result, metrics, log, lc, callVars, pl>>

\* Lines 305-345: the loop closure, with its except clause.  d is the
\* diameter of the last cloud after the accumulated transform (the bounding
\* box is axis-aligned, so a rotation changes it), invRaises whether
\* np.linalg.inv raises LinAlgError.
LoopClosure ==
    /\ pc = "loop_closure"
    /\ pc' = "final"
    /\ UNCHANGED <<pcd_list, voxel_size, valid_pcd_list, transformations, i,
                   result, accumulated, log, phase, callVars, pl>>
    /\ \E d \in Diameters, invRaises \in BOOLEAN :
       \E ret \in ICPReturns :
       \E lib \in EvalLibOutcomes(ret) :
          LET first_pcd == valid_pcd_list[1]
              loop_transform == MultiScaleICP(FALSE, first_pcd.none, ret)
              m == EvaluateRegistration(FALSE, first_pcd.none, d,
                                        voxel_size * 2, lib)
              r == Rebuild(valid_pcd_list, transformations)
          IN  IF loop_transform = None
              THEN /\ lc' = [outcome |-> "no_transform", diameter |-> d]
                   /\ UNCHANGED <<merged, metrics>>
              ELSE /\ metrics' = m
                   /\ IF ~m.has_success
                      THEN /\ lc' = [outcome |-> "key_error", diameter |-> d]
                           /\ UNCHANGED merged
                      ELSE IF ~m.success
                      THEN /\ lc' = [outcome |-> "gate_failed", diameter |-> d]
                           /\ UNCHANGED merged
                      ELSE IF invRaises
                      THEN /\ lc' = [outcome |-> "inv_error", diameter |-> d]
                           /\ UNCHANGED merged
                      ELSE /\ lc' = [outcome |-> IF r.raised THEN "index_error"
                                                 ELSE "rebuilt",
                                     diameter |-> d]
                           /\ merged' = r.merged

\* Lines 347-357: final cleanup, normals, return.
Finalize ==
    /\ pc = "final"
    /\ merged' = Finalized(merged)
    /\ result' = Finalized(merged)
    /\ pc' = "done"
    /\ phase' = "Finalized"
    /\ UNCHANGED <<pcd_list, voxel_size, valid_pcd_list, transformations, i,
                   metrics, accumulated, log, lc, callVars, pl>>

Next == Start \/ Frame \/ LoopExit \/ LoopClosure \/ Finalize

Spec == Init /\ [][Next]_vars

-----------------------------------------------------------------------------
(* multi_scale_icp, step by step *)

\* The clouds multi_scale_icp is called with: None, or a cloud of n points.
ICPClouds ==
    {[none |-> TRUE, npoints |-> 0]} \cup
    {[none |-> FALSE, npoints |-> n] : n \in PointCounts}

\* Lines 163-165: the distance between get_max_bound() and get_min_bound(),
\* which is 0 for a cloud without points or with a single point.
SourceDiameter(npoints) == IF npoints <= 1 THEN 0 ELSE 3000

\* The voxel_sizes argument: None, or a schedule [4 b, 2 b, b] as
\* incremental_registration passes it, given by its base b.
ScheduleInputs == {VoxelNone, 15}

\* Lines 162-167: the base of the schedule in use.
BaseVoxelSize(voxel_sizes, source) ==
    IF voxel_sizes = VoxelNone THEN SourceDiameter(source.npoints) \div 100
    ELSE voxel_sizes

\* voxel_sizes[idx]
VoxelAt(base, idx) ==
    IF idx = 0 THEN base * 4 ELSE IF idx = 1 THEN base * 2 ELSE base

\* Line 50: voxel_down_sample raises RuntimeError on a voxel size that is
\* not positive; line 46 returns before it for a cloud without points.
DownsampleRaises(npoints, voxel) == npoints > 0 /\ voxel <= 0

FusionIdle ==
    /\ pcd_list = <<>>
    /\ voxel_size = VoxelNone
    /\ valid_pcd_list = <<>>
    /\ merged = NonePcd
    /\ transformations = <<>>
    /\ i = 0
    /\ pc = "off"
    /\ result = NonePcd
    /\ metrics = NoMetrics
    /\ phase = "Empty"
    /\ accumulated = NonePcd
    /\ log = <<>>
    /\ lc = NoLoopClosure

\* icp.last before the first scale: nothing called yet
NoScale ==
    [sn |-> 0, tn |-> 0, sdown |-> NoDown, tdown |-> NoDown,
     g |-> "unused", seed |-> "unused", r |-> "unused"]

InitICP ==
    /\ FusionIdle
    /\ ev = Off
    /\ cpc = Off
    /\ bud = Off
    /\ msh = Off
    /\ pl = Off
    /\ pool = Off
    /\ mn = Off
    /\ \E s \in ICPClouds, t \in ICPClouds, vs \in ScheduleInputs :
          icp = [pc |-> "start", source |-> s, target |-> t,
                 voxel_sizes |-> vs, idx |-> 0,
                 current_transformation |-> Identity, result |-> None,
                 calls |-> <<>>, last |-> NoScale]

\* Lines 158-169: the None check, the schedule and the initial
\* transformation.
ICPStart ==
    /\ icp.pc = "start"
    /\ icp' = IF icp.source.none \/ icp.target.none
              THEN [icp EXCEPT !.pc = "done", !.result = None]
              ELSE [icp EXCEPT !.pc = "scales",
                               !.voxel_sizes =
                                   BaseVoxelSize(icp.voxel_sizes, icp.source),
                               !.current_transformation = Identity]
    /\ UNCHANGED <<fusionVars, ev, cpc, bud, msh, pl, pool, mn>>

\* Lines 171-198: one scale.  calls is the history of the scales, last what
\* the scale just run was given and what its stages handed back ("unused"
\* for a stage that was not called).
ICPScale ==
    /\ icp.pc = "scales"
    /\ icp.idx < NumScales
    /\ LET voxel == VoxelAt(icp.voxel_sizes, icp.idx)
       IN  IF \/ DownsampleRaises(icp.source.npoints, voxel)
              \/ DownsampleRaises(icp.target.npoints, voxel)
           THEN icp' = [icp EXCEPT !.pc = "raised"]
           ELSE \E sn \in DownCounts(icp.source.npoints),
                   tn \in DownCounts(icp.target.npoints),
                   g \in StageResults, r \in StageResults :
                   LET sdown == PreprocessPointCloud(icp.source.npoints, sn)
                       tdown == PreprocessPointCloud(icp.target.npoints, tn)
                       st == ScaleStep(icp.current_transformation, icp.idx,
                                       sdown, tdown, g, r)
                   IN  icp' = [icp EXCEPT
                         !.current_transformation = st[1],
                         !.idx = icp.idx + 1,
                         !.calls = Append(icp.calls,
                                     [idx |-> icp.idx,
                                      rejected |-> sdown.none \/ tdown.none,
                                      global |-> st[2],
                                      aligned |-> st[2] /\ g # None,
                                      refine |-> st[3],
                                      refined |-> st[3] /\ r # None]),
                         !.last = [sn |-> sn, tn |-> tn,
                                   sdown |-> sdown, tdown |-> tdown,
                                   g |-> IF st[2] THEN g ELSE "unused",
                                   seed |-> IF st[3] THEN st[4] ELSE "unused",
                                   r |-> IF st[3] THEN r ELSE "unused"]]
    /\ UNCHANGED <<fusionVars, ev, cpc, bud, msh, pl, pool, mn>>

\* Lines 200-205: the final validation and the return.
ICPReturn ==
    /\ icp.pc = "scales"
    /\ icp.idx >= NumScales
    /\ icp' = [icp EXCEPT !.pc = "done",
                          !.result = FinalValidation(icp.current_transformation)]
    /\ UNCHANGED <<fusionVars, ev, cpc, bud, msh, pl, pool, mn>>

NextICP == ICPStart \/ ICPScale \/ ICPReturn

SpecICP == InitICP /\ [][NextICP]_vars

-----------------------------------------------------------------------------
(* evaluate_registration, as a call of its own *)

EvalThresholds == {10, DefaultThreshold, 30}

InitEval ==
    /\ FusionIdle
    /\ icp = Off
    /\ cpc = Off
    /\ bud = Off
    /\ msh = Off
    /\ pl = Off
    /\ pool = Off
    /\ mn = Off
    /\ \E sn \in BOOLEAN, tn \in BOOLEAN, d \in Diameters,
          th \in EvalThresholds, T \in MatrixKinds :
          ev = [pc |-> "call", source_none |-> sn, target_none |-> tn,
                source_diameter |-> d, threshold |-> th, transformation |-> T,
                lib |-> [raises |-> FALSE, fitness |-> 0, inlier_rmse |-> 0],
                result |-> NoMetrics]

\* Lines 207-236.
Evaluate ==
    /\ ev.pc = "call"
    /\ \E lib \in EvalLibOutcomes(ev.transformation) :
          ev' = [ev EXCEPT
                   !.pc = "done",
                   !.lib = lib,
                   !.result = EvaluateRegistration(ev.source_none,
                                  ev.target_none, ev.source_diameter,
                                  ev.threshold, lib)]
    /\ UNCHANGED <<fusionVars, icp, cpc, bud, msh, pl, pool, mn>>

NextEval == Evaluate

SpecEval == InitEval /\ [][NextEval]_vars

-----------------------------------------------------------------------------
(* create_point_cloud *)

\* Depth samples are integers in units of 2^-13 of the depth map's unit:
\* the spacing of the 32-bit floats in [1024, 2048), half their spacing in
\* [2048, 4096).
DepthUnit == 8192
MinValidDepth == 100
DepthScale == 1000
DepthTruncs == {2, 3}

\* The distance between neighbouring 32-bit floats (24-bit significand) at
\* magnitude v.
RECURSIVE Float32Spacing(_)
Float32Spacing(v) ==
    IF v < 16777216 THEN 1 ELSE 2 * Float32Spacing(v \div 2)

\* Lines 14-15: astype(np.float32) rounds to the nearest 32-bit float, ties
\* to the even significand.
ToFloat32(v) ==
    IF v < 0 THEN v
    ELSE LET sp == Float32Spacing(v)
             lo == (v \div sp) * sp
             hi == lo + sp
         IN  IF v = lo THEN v
             ELSE IF v - lo < hi - v THEN lo
             ELSE IF v - lo > hi - v THEN hi
             ELSE IF (lo \div sp) % 2 = 0 THEN lo ELSE hi

\* The sample values tried: negative, zero, mid-range, the two largest
\* 64-bit-float values of this resolution below 3000 (the first is not a
\* 32-bit float, the second is), 3000 itself, and out of range.
DepthSamples ==
    {-DepthUnit, 0, 1500 * DepthUnit, 3000 * DepthUnit - 1,
     3000 * DepthUnit - 2, 3000 * DepthUnit, 5000 * DepthUnit}
SampleCounts == {0, 1, 99}

\* A depth map is given by how many of its samples have each value.  A
\* float32 map holds 32-bit floats only.
DepthMaps(dtype) ==
    {m \in [DepthSamples -> SampleCounts] :
        dtype = "float32" =>
            \A v \in DepthSamples : m[v] > 0 => ToFloat32(v) = v}

\* Line 18: (depth_map > 0) & (depth_map < depth_trunc * depth_scale)
DepthMask(d, depth_trunc, depth_scale) ==
    d > 0 /\ d < depth_trunc * depth_scale * DepthUnit

RECURSIVE SumOver(_, _)
SumOver(m, vs) ==
    IF vs = {} THEN 0
    ELSE LET v == CHOOSE x \in vs : TRUE
         IN  m[v] + SumOver(m, vs \ {v})

\* Line 19: np.sum(depth_mask) on the converted map.
ValidSamples(m, dtype, depth_trunc, depth_scale) ==
    SumOver(m, {v \in DOMAIN m :
                  DepthMask(IF dtype # "float32" THEN ToFloat32(v) ELSE v,
                            depth_trunc, depth_scale)})

\* Lines 14-40: None on fewer than 100 valid samples, otherwise the cloud
\* built from the RGBD image with its outliers removed.
CreatePointCloud(m, dtype, depth_trunc, depth_scale) ==
    IF ValidSamples(m, dtype, depth_trunc, depth_scale) < MinValidDepth
    THEN [none |-> TRUE, outliers_removed |-> FALSE]
    ELSE [none |-> FALSE, outliers_removed |-> TRUE]

InitCloud ==
    /\ FusionIdle
    /\ icp = Off
    /\ ev = Off
    /\ bud = Off
    /\ msh = Off
    /\ pl = Off
    /\ pool = Off
    /\ mn = Off
    /\ \E dtype \in {"float32", "float64"}, t \in DepthTruncs :
       \E m \in DepthMaps(dtype) :
          cpc = [pc |-> "call", dtype |-> dtype, depth_map |-> m,
                 depth_trunc |-> t, depth_scale |-> DepthScale,
                 result |-> [none |-> TRUE, outliers_removed |-> FALSE]]

\* Lines 9-40.
CreateCloud ==
    /\ cpc.pc = "call"
    /\ cpc' = [cpc EXCEPT
                 !.pc = "done",
                 !.result = CreatePointCloud(cpc.depth_map, cpc.dtype,
                                cpc.depth_trunc, cpc.depth_scale)]
    /\ UNCHANGED <<fusionVars, icp, ev, bud, msh, pl, pool, mn>>

NextCloud == CreateCloud

SpecCloud == InitCloud /\ [][NextCloud]_vars

-----------------------------------------------------------------------------
(* The cost budgets of execute_global_registration and refine_registration *)

Max(a, b) == IF a > b THEN a ELSE b

\* Lines 93 and 135: point_count = min(len(source.points), len(target.points))
PointCount(source_n, target_n) == Min(source_n, target_n)

\* Line 94: max_iterations = min(4000000, max(100000, point_count * 1000))
RansacMaxIterations(point_count) ==
    Min(4000000, Max(100000, point_count * 1000))

\* Line 95: max_validation = min(500, max(50, int(point_count * 0.1)))
RansacMaxValidation(point_count) ==
    Min(500, Max(50, point_count \div 10))

\* IcpMaxIteration without its lower clamp
IcpMaxIteration_NoFloor(point_count) ==
    Min(100, point_count \div 1000)

\* Line 136: max_iteration = min(100, max(30, int(point_count / 1000)))
IcpMaxIteration(point_count) ==
    Min(100, Max(30, point_count \div 1000))

\* The cloud sizes tried: around every point where a clamp starts or stops
\* to apply.
CloudSizes ==
    {0, 99, 100, 101, 499, 500, 510, 3999, 4000, 4001, 4999, 5000, 5010,
     29999, 31000, 99999, 100000, 200000}

\* The budgets of a call not made yet.
NoBudget ==
    [stage |-> "none", point_count |-> 0, max_iterations |-> 0,
     max_validation |-> 0, max_iteration |-> 0]

\* bud.now is the last call, bud.before the one before it.
InitBudget ==
    /\ FusionIdle
    /\ icp = Off
    /\ ev = Off
    /\ cpc = Off
    /\ msh = Off
    /\ pl = Off
    /\ pool = Off
    /\ mn = Off
    /\ \E s \in CloudSizes, t \in CloudSizes :
          bud = [pc |-> "call", source_n |-> s, target_n |-> t,
                 now |-> NoBudget, before |-> NoBudget]

\* Lines 92-95: the budgets of execute_global_registration.
GlobalBudgets ==
    /\ bud.pc = "call"
    /\ LET point_count == PointCount(bud.source_n, bud.target_n)
       IN  bud' = [bud EXCEPT
                     !.pc = "done",
                     !.before = bud.now,
                     !.now = [stage |-> "global",
                              point_count |-> point_count,
                              max_iterations |->
                                  RansacMaxIterations(point_count),
                              max_validation |->
                                  RansacMaxValidation(point_count),
                              max_iteration |-> 0]]
    /\ UNCHANGED <<fusionVars, icp, ev, cpc, msh, pl, pool, mn>>

\* Lines 134-136: the budget of refine_registration.
RefineBudget ==
    /\ bud.pc = "call"
    /\ LET point_count == PointCount(bud.source_n, bud.target_n)
       IN  bud' = [bud EXCEPT
                     !.pc = "done",
                     !.before = bud.now,
                     !.now = [stage |-> "refine",
                              point_count |-> point_count,
                              max_iterations |-> 0,
                              max_validation |-> 0,
                              max_iteration |->
                                  IcpMaxIteration(point_count)]]
    /\ UNCHANGED <<fusionVars, icp, ev, cpc, msh, pl, pool, mn>>

\* The next call, on another pair of clouds.
NextCall ==
    /\ bud.pc = "done"
    /\ \E s \in CloudSizes, t \in CloudSizes :
          bud' = [bud EXCEPT !.pc = "call", !.source_n = s, !.target_n = t]
    /\ UNCHANGED <<fusionVars, icp, ev, cpc, msh, pl, pool, mn>>

NextBudget == GlobalBudgets \/ RefineBudget \/ NextCall

SpecBudget == InitBudget /\ [][NextBudget]_vars

-----------------------------------------------------------------------------
(* The mesh cleanup of create_mesh_from_point_cloud (the same four calls end *)
(* generate_mesh_from_point_cloud of point_cloud_to_mesh.py)                *)

\* A mesh is [vertices, triangles]: the positions of the vertices and, for
\* every triangle, the three indices (from 1) of its corners.
MaxMeshVertices == 3
MaxMeshTriangles == 2

\* Positions in a plane; the first three lie on one line.
MeshPositions == {<<0, 0>>, <<1, 0>>, <<2, 0>>, <<0, 1>>}

\* The meshes of at most maxv vertices and maxt triangles.
MeshInputs(maxv, maxt) ==
    UNION {{[vertices |-> vs, triangles |-> ts] :
              vs \in [1..nv -> MeshPositions],
              ts \in UNION {[1..nt -> (1..nv) \X (1..nv) \X (1..nv)] :
                              nt \in 0..maxt}} :
           nv \in 0..maxv}

\* The elements of seq at the indices in keep, in their order.
RECURSIVE KeepSeq(_, _, _)
KeepSeq(seq, keep, k) ==
    IF k > Len(seq) THEN <<>>
    ELSE (IF k \in keep THEN <<seq[k]>> ELSE <<>>) \o KeepSeq(seq, keep, k + 1)

\* remove_degenerate_triangles: drops the triangles that name one vertex
\* index twice.
RemoveDegenerateTriangles(m) ==
    [m EXCEPT !.triangles =
        KeepSeq(m.triangles,
                {k \in 1..Len(m.triangles) :
                    LET t == m.triangles[k]
                    IN  t[1] # t[2] /\ t[2] # t[3] /\ t[3] # t[1]},
                1)]

\* The triangle rotated so that its smallest index comes first.
RotatedToMin(t) ==
    IF t[1] <= t[2]
    THEN (IF t[1] <= t[3] THEN t ELSE <<t[3], t[1], t[2]>>)
    ELSE (IF t[2] <= t[3] THEN <<t[2], t[3], t[1]>>
          ELSE <<t[3], t[1], t[2]>>)

\* remove_duplicated_triangles: keeps the first of the triangles that are
\* equal up to a rotation of their indices.
RemoveDuplicatedTriangles(m) ==
    [m EXCEPT !.triangles =
        KeepSeq(m.triangles,
                {k \in 1..Len(m.triangles) :
                    \A j \in 1..(k - 1) :
                        RotatedToMin(m.triangles[j]) #
                            RotatedToMin(m.triangles[k])},
                1)]

\* The first vertex at the position of vertex k.
FirstAt(vs, k) ==
    CHOOSE j \in 1..k :
        vs[j] = vs[k] /\ \A l \in 1..(j - 1) : vs[l] # vs[k]

\* remove_duplicated_vertices: keeps the first vertex at every position and
\* renumbers the corners of the triangles; no triangle is removed.
RemoveDuplicatedVertices(m) ==
    LET vs == m.vertices
        firsts == {k \in 1..Len(vs) : FirstAt(vs, k) = k}
        new(k) == Cardinality({j \in firsts : j <= FirstAt(vs, k)})
    IN  [vertices |-> KeepSeq(vs, firsts, 1),
         triangles |-> [k \in 1..Len(m.triangles) |->
                          LET t == m.triangles[k]
                          IN  <<new(t[1]), new(t[2]), new(t[3])>>]]

\* Twice the area of triangle t.
Area2(vs, t) ==
    LET a == vs[t[1]]
        b == vs[t[2]]
        c == vs[t[3]]
        x == (b[1] - a[1]) * (c[2] - a[2]) - (c[1] - a[1]) * (b[2] - a[2])
    IN  IF x < 0 THEN -x ELSE x

\* The edges of a triangle, one per side, as sets of corner indices.
EdgeOf(t, side) ==
    IF side = 1 THEN {t[1], t[2]}
    ELSE IF side = 2 THEN {t[2], t[3]} ELSE {t[3], t[1]}

\* How often the triangles in keep refer to edge e.
EdgeRefs(ts, keep, e) ==
    Cardinality({p \in keep \X (1..3) : EdgeOf(ts[p[1]], p[2]) = e})

\* remove_non_manifold_edges: while an edge is referred to more than
\* twice, the triangle of smallest area at such an edge is removed.  The
\* order in which edges and triangles of equal area are taken is the
\* library's; every order is tried.
RECURSIVE NonManifoldRemoved(_, _)
NonManifoldRemoved(m, keep) ==
    LET ts == m.triangles
        bad == {e \in {EdgeOf(ts[p[1]], p[2]) : p \in keep \X (1..3)} :
                   EdgeRefs(ts, keep, e) > 2}
        at(e) == {k \in keep : \E side \in 1..3 : EdgeOf(ts[k], side) = e}
        smallest(e) ==
            {k \in at(e) :
                \A j \in at(e) : Area2(m.vertices, ts[k])
                                   <= Area2(m.vertices, ts[j])}
    IN  IF bad = {} THEN {keep}
        ELSE UNION {NonManifoldRemoved(m, keep \ {k}) :
                      k \in UNION {smallest(e) : e \in bad}}

RemoveNonManifoldEdges(m) ==
    {[m EXCEPT !.triangles = KeepSeq(m.triangles, keep, 1)] :
        keep \in NonManifoldRemoved(m, 1..Len(m.triangles))}

\* Lines 399-402: the four calls in their order.
CleanedMeshes(m) ==
    RemoveNonManifoldEdges(
        RemoveDuplicatedVertices(
            RemoveDuplicatedTriangles(
                RemoveDegenerateTriangles(m))))

InitMesh ==
    /\ FusionIdle
    /\ icp = Off
    /\ ev = Off
    /\ cpc = Off
    /\ bud = Off
    /\ pl = Off
    /\ pool = Off
    /\ mn = Off
    /\ \E m \in MeshInputs(MaxMeshVertices, MaxMeshTriangles) :
          msh = [pc |-> "trimmed", input |-> m, mesh |-> m]

\* Lines 398-404: the cleanup of the trimmed mesh and the return.
MeshCleanup ==
    /\ msh.pc = "trimmed"
    /\ \E m \in CleanedMeshes(msh.mesh) :
          msh' = [msh EXCEPT !.pc = "done", !.mesh = m]
    /\ UNCHANGED <<fusionVars, icp, ev, cpc, bud, pl, pool, mn>>

NextMesh == MeshCleanup

SpecMesh == InitMesh /\ [][NextMesh]_vars

-----------------------------------------------------------------------------
(* process_frames_to_mesh *)

\* What create_point_cloud makes of the frames: for every pair of a frame
\* and a depth map None, a cloud without points, or a cloud.
FrameCases == ShortLists \cup LongLists

\* Line 414: pcd is not None and len(pcd.points) > 0
KeptKinds(ks) == SelectSeq(ks, LAMBDA k : k \in {"small", "large"})

NoMesh == [started |-> FALSE, from |-> NonePcd]

InitFrames ==
    /\ FusionIdle
    /\ icp = Off
    /\ ev = Off
    /\ cpc = Off
    /\ bud = Off
    /\ msh = Off
    /\ pool = Off
    /\ mn = Off
    /\ \E ks \in FrameCases :
          pl = [pc |-> "clouds", frames |-> ks, mesh |-> NoMesh]

\* Lines 411-433: the clouds of the frames, the voxel size from their
\* median diameter, and the call of incremental_registration.
BuildClouds ==
    /\ pl.pc = "clouds"
    /\ LET point_clouds == MakeList(KeptKinds(pl.frames))
       IN  IF point_clouds = <<>>
           THEN /\ pl' = [pl EXCEPT !.pc = "done"]
                /\ UNCHANGED <<pcd_list, voxel_size, pc>>
           ELSE /\ pl' = [pl EXCEPT !.pc = "fusing"]
                /\ pcd_list' = point_clouds
                /\ voxel_size' = Median(DiametersOf(point_clouds)) \div 100
                /\ pc' = "start"
    /\ UNCHANGED <<valid_pcd_list, merged, transformations, i, result,
                   metrics, phase, accumulated, log, lc, callVars>>

\* Lines 435-442: incremental_registration has returned; the mesh is
\* reconstructed from a model that is not None and has points.
Reconstruct ==
    /\ pl.pc = "fusing"
    /\ pc = "done"
    /\ pl' = IF result.none \/ NumPoints(result) = 0
             THEN [pl EXCEPT !.pc = "done"]
             ELSE [pl EXCEPT !.pc = "done",
                             !.mesh = [started |-> TRUE, from |-> result]]
    /\ UNCHANGED <<fusionVars, callVars>>

NextFrames == BuildClouds \/ Next \/ Reconstruct

SpecFrames == InitFrames /\ [][NextFrames]_vars

-----------------------------------------------------------------------------
(* The worker pools: process_multiple_point_clouds of point_cloud_to_mesh.py *)
(* and DepthMapVisualizer.visualize_batch of depth_map_visualizer.py         *)

MaxItems == 3
MaxWorkers == 2

PoolFunctions == {"process_multiple_point_clouds", "visualize_batch"}

\* The items of a call: the sorted, hence distinct, .npy files of
\* visualize_batch, or a list of clouds in which one cloud may occur twice.
PoolItems(fn, n) ==
    IF fn = "visualize_batch" THEN {[k \in 1..n |-> k]}
    ELSE [1..n -> 1..2]

\* What a task reads and writes.  process_single_depth_map loads its file
\* and writes <stem>_plasma.png; generate_mesh_from_point_cloud reads its
\* cloud and works on the clouds voxel_down_sample and
\* remove_statistical_outlier return.
TaskAccesses(fn, task, item) ==
    IF fn = "visualize_batch"
    THEN {[task |-> task, loc |-> <<"npy", item>>, mode |-> "read"],
          [task |-> task, loc |-> <<"png", item>>, mode |-> "write"]}
    ELSE {[task |-> task, loc |-> <<"pcd", item>>, mode |-> "read"]}

\* What a task may return: True or False from process_single_depth_map
\* (its except clause), a mesh from generate_mesh_from_point_cloud.
TaskOutcomes(fn) ==
    IF fn = "visualize_batch" THEN BOOLEAN ELSE {TRUE}

\* A worker thread of the executor is idle or can still be created.
WorkerFree(running, max_workers) == Cardinality(running) < max_workers

\* MapResults in the order in which the tasks completed
MapResults_AsCompleted(results, finished) ==
    [k \in 1..Len(finished) |-> results[finished[k]]]

\* list(executor.map(process_func, items)): the results of the futures in
\* the order of submission.
MapResults(results, finished) ==
    [k \in 1..Len(finished) |-> results[k]]

InitPool ==
    /\ FusionIdle
    /\ icp = Off
    /\ ev = Off
    /\ cpc = Off
    /\ bud = Off
    /\ msh = Off
    /\ pl = Off
    /\ mn = Off
    /\ \E fn \in PoolFunctions, n \in 0..MaxItems, w \in 1..MaxWorkers :
       \E items \in PoolItems(fn, n) :
          pool = [pc |-> "call", fn |-> fn, items |-> items,
                  max_workers |-> w, queued |-> 1, running |-> {},
                  finished |-> <<>>,
                  started |-> [k \in 1..n |-> 0],
                  results |-> [k \in 1..n |-> [item |-> 0, ok |-> FALSE]],
                  accesses |-> {}, returned |-> <<>>]

\* point_cloud_to_mesh.py lines 59-61, depth_map_visualizer.py lines 78-87:
\* visualize_batch returns when there is no file; otherwise the executor is
\* created and map submits every item.
PoolSubmit ==
    /\ pool.pc = "call"
    /\ pool' = IF pool.fn = "visualize_batch" /\ pool.items = <<>>
               THEN [pool EXCEPT !.pc = "done"]
               ELSE [pool EXCEPT !.pc = "running"]
    /\ UNCHANGED <<fusionVars, icp, ev, cpc, bud, msh, pl, mn>>

\* A worker takes the next item of the queue.
PoolStart ==
    /\ pool.pc = "running"
    /\ pool.queued <= Len(pool.items)
    /\ WorkerFree(pool.running, pool.max_workers)
    /\ pool' = [pool EXCEPT
                  !.running = pool.running \cup {pool.queued},
                  !.queued = pool.queued + 1,
                  !.started[pool.queued] = pool.started[pool.queued] + 1,
                  !.accesses = pool.accesses \cup
                      TaskAccesses(pool.fn, pool.queued,
                                   pool.items[pool.queued])]
    /\ UNCHANGED <<fusionVars, icp, ev, cpc, bud, msh, pl, mn>>

\* A running task returns; the tasks finish in any order.
PoolFinish ==
    /\ pool.pc = "running"
    /\ \E k \in pool.running, ok \in TaskOutcomes(pool.fn) :
          pool' = [pool EXCEPT
                     !.running = pool.running \ {k},
                     !.finished = Append(pool.finished, k),
                     !.results[k] = [item |-> pool.items[k], ok |-> ok]]
    /\ UNCHANGED <<fusionVars, icp, ev, cpc, bud, msh, pl, mn>>

\* Every future is done: list(executor.map(...)) is complete and the with
\* block is left.
PoolReturn ==
    /\ pool.pc = "running"
    /\ Len(pool.finished) = Len(pool.items)
    /\ pool' = [pool EXCEPT
                  !.pc = "done",
                  !.returned = MapResults(pool.results, pool.finished)]
    /\ UNCHANGED <<fusionVars, icp, ev, cpc, bud, msh, pl, mn>>

NextPool == PoolSubmit \/ PoolStart \/ PoolFinish \/ PoolReturn

SpecPool == InitPool /\ [][NextPool]_vars

-----------------------------------------------------------------------------
(* main of main.py, stage by stage *)

MaxFrames == 3

\* The classes and functions registration.py defines.
RegistrationNames ==
    {"ConditionalCouplingLayer", "ConditionalInvertibleFlow",
     "PointCloudEncoder", "PointFlowModel", "merge_point_clouds",
     "train_point_flow_model"}

\* from registration import <name>: ImportError for a name the module does
\* not define.
ImportRaises(name) == name \notin RegistrationNames

\* report_progress(progress, stage)
Report(m, progress, stage) ==
    [m EXCEPT !.reports = Append(m.reports,
                                 [progress |-> progress, stage |-> stage])]

\* The run is over after a last report.
Ended(m, progress, stage, how) ==
    [Report(m, progress, stage) EXCEPT !.pc = "done", !.end = how]

\* sorted(depth_map_files): frame_0001_depth.npy before frame_0002_depth.npy
RECURSIVE Ascending(_)
Ascending(S) ==
    IF S = {} THEN <<>>
    ELSE LET least == CHOOSE x \in S : \A y \in S : x <= y
         IN  <<least>> \o Ascending(S \ {least})

\* zip(processed_frames, loaded_depth_maps): the k-th frame with the k-th
\* loaded depth map, <<frame, frame the depth map was estimated from>>
ZipPairs(nframes, loaded) ==
    [k \in 1..Min(nframes, Len(loaded)) |-> <<k, loaded[k]>>]

\* What process_directory does: it raises, it returns [] (no pipeline, no
\* image), or it returns a list and has saved a depth map for the frames in
\* `saved`, the ones whose estimation did not fail.
DepthOutcomes(nframes) ==
    {[kind |-> "raises", saved |-> {}], [kind |-> "empty", saved |-> {}]}
    \cup {[kind |-> "list", saved |-> S] : S \in SUBSET (1..nframes)}

InitMain ==
    /\ FusionIdle
    /\ icp = Off
    /\ ev = Off
    /\ cpc = Off
    /\ bud = Off
    /\ msh = Off
    /\ pl = Off
    /\ pool = Off
    /\ \E o3d \in BOOLEAN, dm \in BOOLEAN, out \in BOOLEAN,
          n \in 0..MaxFrames :
          mn = [pc |-> "start", open3d |-> o3d, depth_modules |-> dm,
                output_ok |-> out, nframes |-> n, reports |-> <<>>,
                saved |-> {}, pairs |-> <<>>, point_clouds |-> {},
                pfm_pairs |-> <<>>, pfm |-> "unset",
                alternative |-> "unset", artifact |-> "none",
                end |-> "running"]

\* Lines 131-136 and fallback_processing: without Open3D the frames are
\* saved and the process exits.  ensure_clean_dir raises when the output
\* directory cannot be made.
MainFallback ==
    /\ mn.pc = "start"
    /\ ~mn.open3d
    /\ mn' = IF ~mn.output_ok
             THEN [mn EXCEPT !.pc = "done", !.end = "raised"]
             ELSE LET m1 == Report(mn, 10, "extracting frames")
                  IN  IF mn.nframes = 0
                      THEN Ended(m1, 100, "failed", "exit1")
                      ELSE Ended([Report(m1, 30, "processing frames")
                                    EXCEPT !.artifact = "frames"],
                                 100, "completed in fallback mode", "exit0")
    /\ UNCHANGED <<fusionVars, icp, ev, cpc, bud, msh, pl, pool>>

\* Lines 138-176: the directories, the frames of the video, the saved
\* frames.
MainExtract ==
    /\ mn.pc = "start"
    /\ mn.open3d
    /\ mn' = IF ~mn.output_ok
             THEN [mn EXCEPT !.pc = "done", !.end = "raised"]
             ELSE LET m1 == Report(mn, 5, "extracting frames")
                  IN  IF mn.nframes = 0
                      THEN Ended(m1, 100, "failed", "returned")
                      ELSE [Report(Report(m1, 10, "processing frames"),
                                   20, "generating depth maps")
                              EXCEPT !.pc = "depth"]
    /\ UNCHANGED <<fusionVars, icp, ev, cpc, bud, msh, pl, pool>>

\* Lines 178-197: process_directory; the name is undefined when the import
\* of the depth modules failed, and the NameError is caught like every
\* exception of the call.
MainDepth ==
    /\ mn.pc = "depth"
    /\ \E d \in DepthOutcomes(mn.nframes) :
          mn' = IF ~mn.depth_modules \/ d.kind \in {"raises", "empty"}
                THEN Ended(mn, 100, "failed", "returned")
                ELSE [Report(mn, 40, "creating visualizations")
                        EXCEPT !.pc = "visualize", !.saved = d.saved]
    /\ UNCHANGED <<fusionVars, icp, ev, cpc, bud, msh, pl, pool>>

\* Lines 199-236: visualize_batch, the check that depth maps and
\* visualizations exist, the depth maps loaded in sorted order.  pngs are
\* the visualizations written.
MainVisualize ==
    /\ mn.pc = "visualize"
    /\ \E raises \in BOOLEAN, pngs \in SUBSET mn.saved :
          mn' = IF raises \/ mn.saved = {} \/ pngs = {}
                THEN Ended(mn, 100, "failed", "returned")
                ELSE [Report(Report(mn, 50,
                                    "preparing point cloud generation"),
                             60, "generating point clouds")
                        EXCEPT !.pc = "clouds"]
    /\ UNCHANGED <<fusionVars, icp, ev, cpc, bud, msh, pl, pool>>

\* Lines 238-258: a cloud from every pair of the zip; valid are the pairs
\* whose cloud is not None and has points.
MainClouds ==
    /\ mn.pc = "clouds"
    /\ LET pairs == ZipPairs(mn.nframes, Ascending(mn.saved))
       IN  \E valid \in SUBSET (1..Len(pairs)) :
              mn' = IF valid = {}
                    THEN Ended([mn EXCEPT !.pairs = pairs],
                               100, "failed", "returned")
                    ELSE [Report(mn, 75, "generating 3D mesh")
                            EXCEPT !.pc = "mesh", !.pairs = pairs,
                                   !.point_clouds = valid]
    /\ UNCHANGED <<fusionVars, icp, ev, cpc, bud, msh, pl, pool>>

\* Lines 260-308: process_frames_to_mesh on the same two lists; when it
\* returns None the alternative is imported from registration, fused and
\* meshed.  Every exception ends the run as failed.
MainMesh ==
    /\ mn.pc = "mesh"
    /\ \E out \in {"raised", "None", "mesh"}, fused \in BOOLEAN :
          LET m1 == [mn EXCEPT !.pfm = out,
                       !.pfm_pairs = ZipPairs(mn.nframes,
                                              Ascending(mn.saved))]
              m2 == Report(m1, 80, "trying alternative approach")
          IN  mn' =
                IF out = "raised" THEN Ended(m1, 100, "failed", "returned")
                ELSE IF out = "mesh" THEN [m1 EXCEPT !.pc = "save"]
                ELSE IF ImportRaises("incremental_registration")
                THEN Ended([m2 EXCEPT !.alternative = "import_error"],
                           100, "failed", "returned")
                ELSE IF fused
                THEN [m2 EXCEPT !.alternative = "fused", !.pc = "save"]
                ELSE Ended([m2 EXCEPT !.alternative = "no_model"],
                           100, "failed", "returned")
    /\ UNCHANGED <<fusionVars, icp, ev, cpc, bud, msh, pl, pool>>

\* Lines 310-323: the final mesh and its simplified version are written.
MainSave ==
    /\ mn.pc = "save"
    /\ mn' = Ended([Report(mn, 90, "finalizing model")
                      EXCEPT !.artifact = "final_mesh"],
                   100, "completed", "returned")
    /\ UNCHANGED <<fusionVars, icp, ev, cpc, bud, msh, pl, pool>>

NextMain ==
    \/ MainFallback
    \/ MainExtract
    \/ MainDepth
    \/ MainVisualize
    \/ MainClouds
    \/ MainMesh
    \/ MainSave

SpecMain == InitMain /\ [][NextMain]_vars

-----------------------------------------------------------------------------
(* Properties of incremental_registration *)

LoopClosureFailures ==
    {"no_transform", "key_error", "gate_failed", "inv_error", "index_error"}

\* C1: whenever the loop-closure attempt fails (the gate is not passed, or an
\* error is raised anywhere inside the step, the rebuild included), the model
\* that goes on to finalization is the running model as it stood at the end
\* of the accumulation.
C1_FailedLoopClosureKeepsModel ==
    (pc = "final" /\ lc.outcome \in LoopClosureFailures) => merged = accumulated

\* C2: a frame whose registration does not pass the success gate leaves the
\* running model and the recorded transforms as they were, and runs no
\* consolidation.
C2_SkippedFrameChangesNothing ==
    [][(Len(log') = Len(log) + 1 /\ ~(metrics'.has_success /\ metrics'.success))
         => (/\ merged' = merged
             /\ transformations' = transformations
             /\ ~log'[Len(log')].consolidated)]_vars

\* a frame was skipped after another one had been fused
C2_Witness ==
    /\ pc = "loop"
    /\ Len(log) >= 2
    /\ log[1].fused
    /\ ~log[Len(log)].fused
    /\ ~metrics.success

\* number of fused frames among the first k processed
RECURSIVE FusedCount(_, _)
FusedCount(l, k) ==
    IF k = 0 THEN 0
    ELSE FusedCount(l, k - 1) + (IF l[k].fused THEN 1 ELSE 0)

\* C3: consolidation runs exactly when the number of successfully fused
\* frames reaches a multiple of batch_size, skipped frames not counted.
C3_ConsolidationEveryBatchOfFused ==
    \A k \in 1..Len(log) :
        log[k].consolidated <=>
            (log[k].fused /\ FusedCount(log, k) % BatchSize = 0)

\* C5: with at least one valid cloud in the input, no failure aborts the
\* run: the call does not raise, every frame after the first valid one is
\* attempted in order, and the call returns a finalized model.
C5_NoFailureAbortsTheRun ==
    ValidList(pcd_list) # <<>> =>
        /\ pc # "raised"
        /\ pc = "done" =>
              /\ ~result.none
              /\ phase = "Finalized"
              /\ Len(log) = Len(ValidList(pcd_list)) - 1
              /\ \A k \in 1..Len(log) : log[k].frame = k

\* C7 as stated: a frame is appended iff fitness > 0.3 and inlier_rmse <
\* 2 * min(0.02, 0.01 * source_diameter), and the same gate decides the loop
\* closure.
C7_GateWithDefaultThreshold ==
    /\ (pc \in {"loop", "loop_closure"} /\ Len(log) > 0) =>
          LET e == log[Len(log)]
              d == valid_pcd_list[e.frame + 1].diameter
          IN  e.fused <=>
                 (/\ metrics.fitness > 30
                  /\ metrics.inlier_rmse < 2 * Min(20, d \div 100))
    /\ (pc = "final" /\ lc.outcome # "none") =>
          (lc.outcome \in {"inv_error", "index_error", "rebuilt"} <=>
              (/\ metrics.fitness > 30
               /\ metrics.inlier_rmse < 2 * Min(20, lc.diameter \div 100)))

\* C7 as amended: a frame is appended iff fitness > 0.3 and inlier_rmse <
\* 2 * min(2 * voxel_size, 0.01 * source_diameter); the same gate, on the
\* diameter of the transformed last cloud, decides whether the loop-closure
\* rebuild is attempted.
C7_GateWithVoxelThreshold ==
    /\ (pc \in {"loop", "loop_closure"} /\ Len(log) > 0) =>
          LET e == log[Len(log)]
              d == valid_pcd_list[e.frame + 1].diameter
          IN  e.fused <=>
                 (/\ metrics.fitness > 30
                  /\ metrics.inlier_rmse < 2 * Min(2 * voxel_size, d \div 100))
    /\ (pc = "final" /\ lc.outcome # "none") =>
          (lc.outcome \in {"inv_error", "index_error", "rebuilt"} <=>
              (/\ metrics.fitness > 30
               /\ metrics.inlier_rmse <
                     2 * Min(2 * voxel_size, lc.diameter \div 100)))

\* every frame was fused and the loop closure rebuilt the model on an
\* inlier_rmse of 0.059, which 2 * min(0.02, ...) would have refused
C7_Witness ==
    /\ pc = "final"
    /\ lc.outcome = "rebuilt"
    /\ metrics.inlier_rmse = 59
    /\ \A k \in 1..Len(log) : log[k].fused

PhaseEdges ==
    {<<"Empty", "Seeded">>, <<"Seeded", "Accumulating">>,
     <<"Accumulating", "LoopClosing">>, <<"Accumulating", "Finalized">>,
     <<"LoopClosing", "Finalized">>}

C9_SeedIsFirstValidCloud ==
    /\ pc # "raised"
    /\ (pc = "loop" /\ i = 1) =>
          /\ merged.parts = ValidList(pcd_list)[1].parts
          /\ transformations = <<0>>

\* C10: the call returns None iff the input has no valid cloud.
C10_NoneIffNoValidCloud ==
    pc = "done" => (result.none <=> ValidList(pcd_list) = <<>>)

-----------------------------------------------------------------------------
(* Properties of multi_scale_icp and evaluate_registration *)

\* C4: multi_scale_icp never returns a transform with a NaN or an Inf entry.
C4_NeverReturnsNanOrInf ==
    (icp.pc = "done" /\ icp.result # None) => icp.result \notin {"nan", "inf"}

\* C6: every result of evaluate_registration has a success field, true only
\* when the thresholds were computed and passed, false on the missing-input
\* and exception paths.
C6_SuccessAlwaysPresent ==
    ev.pc = "done" =>
        /\ ev.result.has_success
        /\ (ev.source_none \/ ev.target_none \/ ev.lib.raises)
              => ~ev.result.success
        /\ ev.result.success =>
              /\ ev.result.fitness > 30
              /\ ev.result.inlier_rmse <
                    2 * Min(ev.threshold, ev.source_diameter \div 100)

-----------------------------------------------------------------------------
(* Properties of the returned model *)

\* C11: every model returned for an input with at least one valid cloud
\* (a one-cloud input included) has been finalized: downsampled and cleaned,
\* then given consistently oriented normals.
C11_ReturnedModelIsFinalized ==
    (pc = "done" /\ ValidList(pcd_list) # <<>>) =>
        (result.cleaned /\ result.normals)

\* C12: fusing an input with a single cloud returns a model made of that
\* cloud's points where they were: no point added, no point moved.
C12_SingleCloudKeepsItsPoints ==
    (pc = "done" /\ Len(ValidList(pcd_list)) = 1) =>
        (/\ ~result.none
         /\ \A k \in 1..Len(result.parts) :
               result.parts[k] = <<ValidList(pcd_list)[1].obj, 0, 0>>)

\* a one-entry list was handed back by the early return
C12_Witness ==
    /\ pc = "done"
    /\ Len(pcd_list) = 1
    /\ Len(ValidList(pcd_list)) = 1
    /\ phase = "Empty"
    /\ result.parts = << <<1, 0, 0>> >>

-----------------------------------------------------------------------------
(* Properties of the scales of multi_scale_icp *)

\* C13: in one call of multi_scale_icp global registration is called at most
\* once, only at the first scale and only from the identity; a later scale
\* never calls it, also when preprocessing rejected the first scale.
C13_GlobalOnlyAtCoarsestScale ==
    [][(icp.pc = "scales" /\ icp'.idx = icp.idx + 1
            /\ icp'.calls[Len(icp'.calls)].global)
         => (/\ icp.idx = 0
             /\ icp.current_transformation = "identity"
             /\ \A k \in 1..Len(icp.calls) : ~icp.calls[k].global)]_vars

\* the first scale was rejected, the second one survived and was refined
\* without global registration
C13_Witness ==
    /\ icp.pc = "scales"
    /\ icp.idx = 2
    /\ icp.calls[1].rejected
    /\ ~icp.calls[2].rejected
    /\ ~icp.calls[2].global
    /\ icp.calls[2].refined
    /\ icp.current_transformation = "finite"

\* C14: refinement runs at every scale that survives preprocessing, from the
\* transformation of the most recent successful stage; a failed refinement
\* leaves the current transformation as it is and the next scale is tried.
C14_RefinementAtEverySurvivingScale ==
    [][/\ (icp.pc = "scales" /\ icp'.idx = icp.idx + 1) =>
            LET c == icp'.calls[Len(icp'.calls)]
                l == icp'.last
                expected == IF c.aligned THEN l.g
                            ELSE icp.current_transformation
            IN  /\ c.refine <=> ~c.rejected
                /\ c.refine => l.seed = expected
                /\ c.refined => icp'.current_transformation = l.r
                /\ (c.refine /\ ~c.refined)
                      => icp'.current_transformation = expected
                /\ icp'.pc = "scales"
       /\ (icp.pc = "scales" /\ icp'.pc = "done") => Len(icp.calls) = 3
      ]_vars

\* global registration succeeded and refinement failed at the first scale;
\* the second scale refined from the global result and failed too
C14_Witness ==
    /\ icp.pc = "scales"
    /\ icp.idx = 2
    /\ icp.calls[1].aligned
    /\ ~icp.calls[1].refined
    /\ icp.calls[2].refine
    /\ ~icp.calls[2].refined
    /\ icp.last.seed = "finite"
    /\ icp.current_transformation = "finite"

\* C15: called with two present clouds multi_scale_icp returns a
\* transformation, and the identity when no stage succeeded at any scale.
C15_AlwaysATransform ==
    /\ icp.pc # "raised"
    /\ (icp.pc = "done" /\ ~icp.source.none /\ ~icp.target.none) =>
        /\ icp.result \in {"identity", "finite", "nan", "inf"}
        /\ (\A k \in 1..Len(icp.calls) :
                  ~icp.calls[k].aligned /\ ~icp.calls[k].refined)
                => icp.result = "identity"

\* C17: preprocess_point_cloud returns (None, None) exactly when fewer than
\* 10 points survive the downsampling (an empty cloud included) and the
\* downsampled cloud otherwise; a scale at which either cloud is rejected
\* runs neither global registration nor refinement.
C17_PreprocessRejectsBelowTen ==
    (icp.pc \in {"scales", "done"} /\ Len(icp.calls) > 0) =>
        LET l == icp.last
            c == icp.calls[Len(icp.calls)]
        IN  /\ l.sdown.none <=> l.sn < 10
            /\ l.tdown.none <=> l.tn < 10
            /\ ~l.sdown.none => l.sdown.npoints = l.sn
            /\ ~l.tdown.none => l.tdown.npoints = l.tn
            /\ (l.sdown.none \/ l.tdown.none) =>
                  /\ c.rejected
                  /\ ~c.global
                  /\ ~c.refine
                  /\ l.seed = "unused"

\* the source kept exactly 10 points and was accepted, the target kept 9
\* and the scale was skipped
C17_Witness ==
    /\ icp.pc = "scales"
    /\ Len(icp.calls) > 0
    /\ icp.last.sn = 10
    /\ ~icp.last.sdown.none
    /\ icp.last.tn = 9
    /\ icp.last.tdown.none
    /\ icp.calls[Len(icp.calls)].rejected

-----------------------------------------------------------------------------
(* Properties of create_point_cloud *)

\* C16: create_point_cloud counts as valid exactly the samples of the depth
\* map strictly between 0 and depth_trunc * depth_scale, returns None
\* whenever fewer than 100 samples are valid and builds a cloud otherwise.
C16_ValidSamplesDecide ==
    cpc.pc = "done" =>
        (cpc.result.none <=>
            SumOver(cpc.depth_map,
                    {v \in DOMAIN cpc.depth_map :
                       v > 0 /\ v < cpc.depth_trunc * cpc.depth_scale * 8192})
              < 100)

-----------------------------------------------------------------------------
(* Properties of the cost budgets *)

\* C19: for every pair of cloud sizes the RANSAC iteration budget is in
\* [100000, 4000000], the validation-sample count in [50, 500] and the ICP
\* iteration count in [30, 100], and none of them decreases when the smaller
\* cloud's point count grows.
C19_BudgetsBoundedAndMonotone ==
    bud.pc = "done" =>
        LET n == bud.now
            b == bud.before
        IN  /\ n.point_count <= bud.source_n
            /\ n.point_count <= bud.target_n
            /\ n.point_count \in {bud.source_n, bud.target_n}
            /\ n.stage = "global" =>
                  /\ n.max_iterations >= 100000
                  /\ n.max_iterations <= 4000000
                  /\ n.max_validation >= 50
                  /\ n.max_validation <= 500
            /\ n.stage = "refine" =>
                  /\ n.max_iteration >= 30
                  /\ n.max_iteration <= 100
            /\ (b.stage = n.stage /\ b.point_count <= n.point_count) =>
                  /\ b.max_iterations <= n.max_iterations
                  /\ b.max_validation <= n.max_validation
                  /\ b.max_iteration <= n.max_iteration

\* two calls of one stage in a row: the second, on larger clouds, got a
\* larger budget strictly inside the bounds
C19_Witness ==
    /\ bud.pc = "done"
    /\ bud.before.stage = bud.now.stage
    /\ bud.before.point_count < bud.now.point_count
    /\ \/ /\ bud.now.stage = "global"
          /\ bud.before.max_validation = 50
          /\ bud.now.max_validation = 399
          /\ bud.now.max_iterations = 3999000
       \/ /\ bud.now.stage = "refine"
          /\ bud.before.max_iteration = 30
          /\ bud.now.max_iteration = 99

-----------------------------------------------------------------------------
(* Properties of the mesh cleanup *)

\* C18: after the cleanup no two vertices of the mesh have the same
\* position and no triangle is degenerate: none names a vertex twice and
\* none has zero area, the triangles that become degenerate when duplicated
\* vertices are merged included.
C18_CleanMeshHasNoDegenerates ==
    msh.pc = "done" =>
        LET vs == msh.mesh.vertices
            ts == msh.mesh.triangles
        IN  /\ \A j, k \in 1..Len(vs) : j # k => vs[j] # vs[k]
            /\ \A k \in 1..Len(ts) :
                  /\ ts[k][1] # ts[k][2]
                  /\ ts[k][2] # ts[k][3]
                  /\ ts[k][3] # ts[k][1]
                  /\ Area2(vs, ts[k]) > 0

-----------------------------------------------------------------------------
(* Properties of process_frames_to_mesh *)

\* C20: the frames are registered one after the other, each after the
\* step of the one before has finished, and the mesh reconstruction starts
\* only once accumulation, loop closure and finalization are over, on a
\* fused model with points.
C20_MeshAfterFusionIsOver ==
    /\ \A k \in 1..Len(log) : log[k].frame = k
    /\ pl.mesh.started =>
          /\ pc = "done"
          /\ NumPoints(pl.mesh.from) > 0
          /\ pl.mesh.from = result
          /\ Len(log) = Len(KeptKinds(pl.frames)) - 1
          /\ phase = "Finalized"
          /\ result.cleaned /\ result.normals

-----------------------------------------------------------------------------
(* Properties of the worker pools *)

-----------------------------------------------------------------------------
(* Properties of the rebuild, the inputs and the recorded transforms *)

\* The frames (0-based indices into valid_pcd_list) the log has as fused
FusedFrames == {log[k].frame : k \in {j \in 1..Len(log) : log[j].fused}}

\* C22: once loop closure has passed the success gate and rebuilt the model,
\* the model is the first cloud followed by one part for every frame fused
\* during accumulation, each under the transform recorded for that frame;
\* a skipped frame has no part and no frame has another frame's transform.
C22_RebuildUsesEachFramesOwnTransform ==
    (pc = "final" /\ lc.outcome \in {"rebuilt", "index_error"}) =>
        /\ merged.parts[1] = <<valid_pcd_list[1].obj, 0, 0>>
        /\ \A k \in 2..Len(merged.parts) :
              \E f \in FusedFrames :
                 /\ merged.parts[k][1] = valid_pcd_list[f + 1].obj
                 /\ merged.parts[k][2] = f
        /\ \A f \in FusedFrames :
              \E k \in 2..Len(merged.parts) : merged.parts[k][2] = f

\* C24: incremental_registration leaves the clouds of pcd_list as they are,
\* and the model it returns is an object of its own, not one of the input
\* clouds, for a list of any length, a list of one cloud included.
C24_InputsUntouchedAndResultSeparate ==
    /\ [][pcd_list' = pcd_list]_vars
    /\ []((pc = "done" /\ ~result.none) => result.obj = 0)

\* The log entries of the fused frames, in the order of the frames
FusedLog == SelectSeq(log, LAMBDA e : e.fused)

\* C25: throughout the accumulation loop the recorded transforms are the
\* identity followed by the transform of every fused frame, in the order of
\* the frames, so there are 1 + (frames fused so far) of them; there is one
\* per cloud handled so far only when no frame was skipped.
C25_OneTransformPerFusedFrame ==
    pc \in {"loop", "loop_closure", "final"} =>
        /\ Len(transformations) = 1 + Len(FusedLog)
        /\ transformations[1] = 0
        /\ \A k \in 1..Len(FusedLog) :
              transformations[k + 1] = FusedLog[k].frame
        /\ (Len(transformations) = i) <=>
              (\A k \in 1..Len(log) : log[k].fused)

\* in the loop, after a skipped frame and a fused one: fewer transforms
\* than clouds handled
C25_Witness ==
    /\ pc = "loop"
    /\ Len(log) >= 2
    /\ ~log[1].fused
    /\ log[2].fused
    /\ transformations = <<0, 2>>
    /\ Len(transformations) < i

-----------------------------------------------------------------------------
(* Properties of main *)

\* C23: every cloud of main and of process_frames_to_mesh is built from a
\* frame and the depth map estimated from that same frame, whichever
\* frames the depth estimation failed for.
C23_FramePairedWithItsOwnDepthMap ==
    /\ \A k \in 1..Len(mn.pairs) : mn.pairs[k][1] = mn.pairs[k][2]
    /\ \A k \in 1..Len(mn.pfm_pairs) :
          mn.pfm_pairs[k][1] = mn.pfm_pairs[k][2]

\* The last report of the run
LastReport == mn.reports[Len(mn.reports)]

\* C26: the progress values a run of main reports never decrease, and the
\* run ends with exactly one report of 100%, whose stage is 'completed' or
\* 'completed in fallback mode' exactly when the output artifact was
\* produced and 'failed' otherwise; no run ends without that report.
C26_ProgressEndsWithOneFinalReport ==
    /\ \A k \in 1..(Len(mn.reports) - 1) :
          mn.reports[k].progress <= mn.reports[k + 1].progress
    /\ (mn # Off /\ mn.end # "running") =>
          /\ mn.reports # <<>>
          /\ LastReport.progress = 100
          /\ Cardinality({k \in 1..Len(mn.reports) :
                             mn.reports[k].progress = 100}) = 1
          /\ LastReport.stage \in
                {"completed", "completed in fallback mode", "failed"}
          /\ (LastReport.stage # "failed") <=> (mn.artifact # "none")

\* C27: when process_frames_to_mesh returns no mesh, main runs the
\* alternative fusion of the clouds it has built, and the run ends as
\* 'completed' whenever that fusion gives a model with points.
C27_AlternativePathIsExecuted ==
    (mn # Off /\ mn.end # "running" /\ mn.pfm = "None") =>
        /\ mn.alternative \in {"fused", "no_model"}
        /\ (mn.alternative = "fused") => (LastReport.stage = "completed")

====
